---- MODULE Spec2Model ----
(***************************************************************************)
(* ShopSmart recommendation engine: the online orchestrator (recommend,    *)
(* similar), the event ingestion path, the trending and the similarity     *)
(* batch pipelines, the Redis cache, and the tables they share.            *)
(*                                                                         *)
(* Numbers are fixed point.  A similarity_score is in hundredths (80 is    *)
(* 0.80) and so is a personalized score; a ranking score is in             *)
(* thousandths; a trending contribution is in thousandths of one event     *)
(* weight unit and a normalised trending score is in thousandths of a      *)
(* point (100000 is 100.0).                                                *)
(***************************************************************************)
EXTENDS Integers, Sequences, FiniteSets, TLC

VARIABLES
    products,          \* table products: id -> row
    users,             \* table users: the external_id of every row
    events,            \* table events, oldest first
    item_similarity,   \* table item_similarity: a set of rows
    trending_scores,   \* table trending_scores: a set of rows
    cache,             \* Redis: key -> stored document
    now,               \* the clock, in days
    resp,              \* what the operation that ran last returned
    pending,           \* recommend requests past their reads, not yet answered
    tx                 \* the open transaction of a pipeline's save, if any

vars == <<products, users, events, item_similarity, trending_scores, cache,
          now, resp, pending, tx>>

(***************************************************************************)
(* Bounds of the model.                                                    *)
(***************************************************************************)
NProducts == 5          \* products 1..NProducts have a row in `products`
MaxCacheEntries == 1    \* keys Redis holds before a SETEX fails

Products == 1..NProducts
MissingProduct == NProducts + 1     \* an id with no row in `products`
Categories == {1, 2}                \* categories.id, a serial starting at 1
SimScoreValues == {80, 90}          \* stored similarity_score values drawn

(***************************************************************************)
(* Generic helpers.                                                        *)
(***************************************************************************)
Min(a, b) == IF a < b THEN a ELSE b

\* A slice that cuts nothing.
LimitOff(s, n) == s

\* s[:n] of a list, LIMIT n of a query.
Limit(s, n) == SubSeq(s, 1, Min(n, Len(s)))

SeqToSet(s) == {s[i] : i \in 1..Len(s)}

\* A descending sort that is not stable: a record is put before the records
\* of equal key that came earlier.
RECURSIVE InsertDescBefore(_, _)
InsertDescBefore(sorted, x) ==
    IF sorted = <<>> THEN <<x>>
    ELSE IF Head(sorted).key > x.key
         THEN <<Head(sorted)>> \o InsertDescBefore(Tail(sorted), x)
         ELSE <<x>> \o sorted

RECURSIVE SortDescUnstable(_)
SortDescUnstable(s) ==
    IF s = <<>> THEN <<>>
    ELSE InsertDescBefore(SortDescUnstable(SubSeq(s, 1, Len(s) - 1)),
                          s[Len(s)])

\* Python's list.sort(key=..., reverse=True) / sorted(..., reverse=True) on a
\* list of records with a `key` field: descending and stable.
RECURSIVE InsertDesc(_, _)
InsertDesc(sorted, x) ==
    IF sorted = <<>> THEN <<x>>
    ELSE IF Head(sorted).key >= x.key
         THEN <<Head(sorted)>> \o InsertDesc(Tail(sorted), x)
         ELSE <<x>> \o sorted

RECURSIVE SortDesc(_)
SortDesc(s) ==
    IF s = <<>> THEN <<>>
    ELSE InsertDesc(SortDesc(SubSeq(s, 1, Len(s) - 1)), s[Len(s)])

\* SQL "ORDER BY key DESC" over a set of records with a `key` field: every
\* sequence of all the rows in non-increasing key order.  SQL leaves the order
\* of rows with equal keys open, so this is a set of possible results.
RECURSIVE OrderByDesc(_)
OrderByDesc(rows) ==
    IF rows = {} THEN {<<>>}
    ELSE LET top == {r \in rows : \A q \in rows : r.key >= q.key}
         IN  UNION {{<<r>> \o s : s \in OrderByDesc(rows \ {r})} : r \in top}

\* str(n) for a small non-negative integer, as a sequence of characters.
DigitChar == <<"0", "1", "2", "3", "4", "5", "6", "7", "8", "9">>

RECURSIVE Digits(_)
Digits(n) ==
    IF n < 10 THEN <<DigitChar[n + 1]>>
    ELSE Digits(n \div 10) \o <<DigitChar[(n % 10) + 1]>>

(***************************************************************************)
(* The cache (CacheService over Redis).  A key is a sequence of            *)
(* characters; a stored value is the JSON document, kept as a record.      *)
(***************************************************************************)
NoValue == [kind |-> "none"]

\* Stored values CacheService did not write: "garbled" is not JSON,
\* "misshapen" is JSON for a non-empty value of another shape.
CorruptKinds == {"garbled", "misshapen"}

\* CacheService.get: the stored document, or None when the key is absent,
\* Redis raised (ok = FALSE) or json.loads raised JSONDecodeError.
CacheGet(key, ok) ==
    IF ok /\ key \in DOMAIN cache /\ cache[key].kind # "garbled"
    THEN cache[key]
    ELSE NoValue

\* CacheService.set: SETEX stores the document unless Redis raised; a full
\* store refuses new keys.
CacheSet(c, key, value, ok) ==
    IF ok /\ (key \in DOMAIN c \/ Cardinality(DOMAIN c) < MaxCacheEntries)
    THEN [x \in DOMAIN c \cup {key} |-> IF x = key THEN value ELSE c[x]]
    ELSE c

SimKey(product_id, k) ==
    <<"s", "i", "m", ":">> \o Digits(product_id) \o <<":">> \o Digits(k)

\* Python's truth value of what CacheService.get returned for a similarity
\* key: None and the empty list are falsy.
SimCachedTruthy(value) ==
    IF value = NoValue THEN FALSE
    ELSE IF value.kind = "sim" THEN value.items # <<>>
    ELSE TRUE

(***************************************************************************)
(* SimilarityService.get_similar_products                                  *)
(***************************************************************************)
ProductExists(product_id) == product_id \in DOMAIN products

\* The joined, filtered rows of the candidates query.
SimilarCandidates(product_id) ==
    {r \in item_similarity :
        /\ r.product_id = product_id
        /\ ProductExists(r.similar_product_id)
        /\ products[r.similar_product_id].is_active}

\* Every result the candidates query may return: ordered by similarity_score
\* descending, limited to k * 3 rows.
SimilarFetches(product_id, k) ==
    {Limit(s, k * 3) :
        s \in OrderByDesc({[key |-> r.similarity_score, row |-> r] :
                            r \in SimilarCandidates(product_id)})}

\* RankingScore with the boost given to the candidates of the OTHER categories.
RankingScoreBoostOther(source_category, row) ==
    IF products[row.similar_product_id].category_id # source_category
    THEN row.similarity_score * 12
    ELSE row.similarity_score * 10

\* The score a candidate is ranked by, in thousandths: similarity_score * 1.2
\* when it shares the source's category, similarity_score otherwise.
RankingScore(source_category, row) ==
    IF products[row.similar_product_id].category_id = source_category
    THEN row.similarity_score * 12
    ELSE row.similarity_score * 10

\* scored_products: (similarity, product, score) per fetched candidate.
ScoredProducts(product_id, fetched) ==
    [i \in 1..Len(fetched) |->
        [key |-> RankingScore(products[product_id].category_id, fetched[i].row),
         row |-> fetched[i].row]]

ToItem(product_id, score, rank) ==
    [id |-> product_id,
     category_id |-> products[product_id].category_id,
     is_active |-> products[product_id].is_active,
     score |-> score,
     rank |-> rank]

\* GetSimilarProducts displaying the boosted score it ranked by.
GetSimilarProductsBoostedDisplay(product_id, fetched, k) ==
    IF ~ProductExists(product_id) THEN <<>>
    ELSE LET top_k == Limit(SortDesc(ScoredProducts(product_id, fetched)), k)
         IN  [idx \in 1..Len(top_k) |->
                ToItem(top_k[idx].row.similar_product_id,
                       top_k[idx].key \div 10, idx)]

\* GetSimilarProducts without the re-sort by the adjusted scores.
GetSimilarProductsNoResort(product_id, fetched, k) ==
    IF ~ProductExists(product_id) THEN <<>>
    ELSE LET top_k == Limit(ScoredProducts(product_id, fetched), k)
         IN  [idx \in 1..Len(top_k) |->
                ToItem(top_k[idx].row.similar_product_id,
                       top_k[idx].row.similarity_score, idx)]

\* The list the service returns for one result `fetched` of the query.
GetSimilarProducts(product_id, fetched, k) ==
    IF ~ProductExists(product_id) THEN <<>>
    ELSE LET top_k == Limit(SortDesc(ScoredProducts(product_id, fetched)), k)
         IN  [idx \in 1..Len(top_k) |->
                ToItem(top_k[idx].row.similar_product_id,
                       top_k[idx].row.similarity_score, idx)]

(***************************************************************************)
(* GET /similar-products                                                   *)
(***************************************************************************)
\* GetProduct finding every id.
GetProductAny(product_id) == TRUE

\* ProductService.get_product: the row, if it exists and is active.
GetProduct(product_id) ==
    ProductExists(product_id) /\ products[product_id].is_active

NoResp == [op |-> "none"]
NoTx == [job |-> "none"]

SimilarNotFound(product_id, k) ==
    /\ ~GetProduct(product_id)
    /\ resp' = [op |-> "similar", product_id |-> product_id, k |-> k,
                status |-> 404, items |-> <<>>, from_cache |-> FALSE]
    /\ UNCHANGED cache

\* ProductWithScore(**p) raises on a cached value that is not a list of
\* product documents; nothing catches it.
SimilarFailed(product_id, k) ==
    /\ GetProduct(product_id)
    /\ SimCachedTruthy(CacheGet(SimKey(product_id, k), TRUE))
    /\ CacheGet(SimKey(product_id, k), TRUE).kind # "sim"
    /\ resp' = [op |-> "similar", product_id |-> product_id, k |-> k,
                status |-> 500, items |-> <<>>, from_cache |-> TRUE]
    /\ UNCHANGED cache

SimilarCached(product_id, k, getOk) ==
    /\ GetProduct(product_id)
    /\ SimCachedTruthy(CacheGet(SimKey(product_id, k), getOk))
    /\ CacheGet(SimKey(product_id, k), getOk).kind = "sim"
    /\ resp' = [op |-> "similar", product_id |-> product_id, k |-> k,
                status |-> 200,
                items |-> CacheGet(SimKey(product_id, k), getOk).items,
                from_cache |-> TRUE]
    /\ UNCHANGED cache

SimilarComputed(product_id, k, setOk) ==
    /\ GetProduct(product_id)
    /\ \E getOk \in BOOLEAN :
         ~SimCachedTruthy(CacheGet(SimKey(product_id, k), getOk))
    /\ \E similar \in {GetSimilarProducts(product_id, fetched, k) :
                           fetched \in SimilarFetches(product_id, k)} :
         /\ cache' = CacheSet(cache, SimKey(product_id, k),
                              [kind |-> "sim", items |-> similar], setOk)
         /\ resp' = [op |-> "similar", product_id |-> product_id, k |-> k,
                     status |-> 200, items |-> similar, from_cache |-> FALSE]

\* The route handler: 404 unless the product is found, then
\* RecommendationService.get_similar_products (cache, service, cache).
Similar(product_id, k) ==
    /\ \/ SimilarNotFound(product_id, k)
       \/ SimilarCached(product_id, k, TRUE)
       \/ SimilarFailed(product_id, k)
       \/ \E setOk \in BOOLEAN : SimilarComputed(product_id, k, setOk)
    /\ UNCHANGED <<products, users, events, item_similarity, trending_scores,
                   now, pending, tx>>

\* A stored value is overwritten or damaged by something other than
\* CacheService.
CacheCorrupt(key, kind) ==
    /\ key \in DOMAIN cache
    /\ cache' = [cache EXCEPT ![key] = [kind |-> kind]]
    /\ UNCHANGED <<products, users, events, item_similarity, trending_scores,
                   now, resp, pending, tx>>

\* A key's TTL runs out.
CacheExpire ==
    /\ \E key \in DOMAIN cache :
         cache' = [x \in DOMAIN cache \ {key} |-> cache[x]]
    /\ UNCHANGED <<products, users, events, item_similarity, trending_scores,
                   now, resp, pending, tx>>

\* A product is taken out of the catalog: products.is_active is set to false
\* by whoever maintains the table (no service of the application writes the
\* column).  The answer given before is no longer the latest observation.
Deactivate(product_id) ==
    /\ ProductExists(product_id)
    /\ products[product_id].is_active
    /\ products' = [products EXCEPT ![product_id].is_active = FALSE]
    /\ resp' = NoResp
    /\ UNCHANGED <<users, events, item_similarity, trending_scores, cache,
                   now, pending, tx>>

(***************************************************************************)
(* Cache keys and pattern deletion                                         *)
(***************************************************************************)
NoCategory == 0 - 1     \* category_id = None in a request

\* Python's truth value of an Optional[int]: None and 0 are falsy.
Truthy(category_id) == category_id # NoCategory /\ category_id # 0

\* f"rec:{user_id}:{k}:{category_id or 'all'}"
RecKey(user_id, k, category_id) ==
    <<"r", "e", "c", ":">> \o user_id \o <<":">> \o Digits(k) \o <<":">>
        \o (IF Truthy(category_id) THEN Digits(category_id)
            ELSE <<"a", "l", "l">>)

\* Redis KEYS pattern matching: * matches any run of characters, ? any one
\* character, every other character itself.  Character classes ([...]) and
\* escapes are left out: no key or pattern of the model holds '[' or '\'.
RECURSIVE GlobMatch(_, _)
GlobMatch(pattern, key) ==
    IF pattern = <<>> THEN key = <<>>
    ELSE IF Head(pattern) = "*"
         THEN IF GlobMatch(Tail(pattern), key) THEN TRUE
              ELSE IF key = <<>> THEN FALSE
              ELSE GlobMatch(pattern, Tail(key))
    ELSE IF key = <<>> THEN FALSE
    ELSE IF Head(pattern) = "?" \/ Head(pattern) = Head(key)
         THEN GlobMatch(Tail(pattern), Tail(key))
         ELSE FALSE

\* delete_pattern issuing DEL on the pattern itself, taken as a key.
DeletePatternAsKey(c, pattern, ok) ==
    IF ok THEN [x \in DOMAIN c \ {pattern} |-> c[x]] ELSE c

\* CacheService.delete_pattern (and the pipelines' keys + delete): the cache
\* without the keys that match, unchanged when Redis raised.
DeletePattern(c, pattern, ok) ==
    IF ok THEN [x \in {y \in DOMAIN c : ~GlobMatch(pattern, y)} |-> c[x]]
    ELSE c

\* CacheService.invalidate_user_recommendations
InvalidateUserRecommendations(c, user_id, ok) ==
    DeletePattern(c, <<"r", "e", "c", ":">> \o user_id \o <<":", "*">>, ok)

(***************************************************************************)
(* POST /events                                                            *)
(***************************************************************************)
EventTypes == {"view", "add_to_cart", "purchase"}

\* The route handler: 404 for an unknown product; otherwise get_or_create_user,
\* then EventService.create_event (insert, commit, invalidate the user's
\* recommendation keys).  The timestamp defaults to utcnow().
CreateEvent(user_id, product_id, event_type) ==
    /\ \/ /\ ~ProductExists(product_id)
          /\ resp' = [op |-> "create_event", status |-> 404]
          /\ UNCHANGED <<users, events, cache>>
       \/ /\ ProductExists(product_id)
          /\ users' = users \cup {user_id}
          /\ events' = Append(events, [user_id |-> user_id,
                                       product_id |-> product_id,
                                       event_type |-> event_type,
                                       day |-> now])
          /\ \E delOk \in BOOLEAN :
                cache' = InvalidateUserRecommendations(cache, user_id, delOk)
          /\ resp' = [op |-> "create_event", status |-> 201]
    /\ UNCHANGED <<products, item_similarity, trending_scores, now,
                   pending, tx>>

(***************************************************************************)
(* POST /events, statement by statement.  A submission under way is a      *)
(* record of `pending`; `stage` tells how far it has come.                 *)
(***************************************************************************)
\* The event row a submission inserts.
EventOf(request) ==
    [user_id |-> request.user_id, product_id |-> request.product_id,
     event_type |-> request.event_type, day |-> request.day]

\* create_event returning before the insert is committed.
CommitEventDeferred(log, event) == log

\* self.db.add(event); self.db.commit(): the row is in the table, for every
\* session to read.
CommitEvent(log, event) == Append(log, event)

\* The INSERT of get_or_create_user and its commit.  users.external_id is
\* unique: when a row of this external_id has been committed since the
\* SELECT, the commit raises IntegrityError, which nothing catches, and the
\* submission ends with a 500.
InsertUser(request) ==
    IF request.user_id \in users
    THEN /\ pending' = pending \ {request}
         /\ resp' = [op |-> "create_event", status |-> 500,
                     user_id |-> request.user_id,
                     event |-> EventOf(request), deleted |-> 0]
         /\ UNCHANGED users
    ELSE /\ users' = users \cup {request.user_id}
         /\ pending' = (pending \ {request})
                         \cup {[request EXCEPT !.stage = "user_ready"]}
         /\ UNCHANGED resp

\* The route handler up to the SELECT of get_or_create_user: 404 for an
\* unknown product; otherwise the user row is looked up.
EventStart(id, user_id, product_id, event_type) ==
    /\ \A request \in pending : request.id # id
    /\ \/ /\ ~ProductExists(product_id)
          /\ resp' = [op |-> "create_event", status |-> 404,
                      user_id |-> user_id,
                      event |-> [user_id |-> user_id,
                                 product_id |-> product_id,
                                 event_type |-> event_type, day |-> now],
                      deleted |-> 0]
          /\ UNCHANGED pending
       \/ /\ ProductExists(product_id)
          /\ pending' = pending \cup
                {[id |-> id, user_id |-> user_id, product_id |-> product_id,
                  event_type |-> event_type, day |-> now,
                  stage |-> IF user_id \in users THEN "user_ready"
                            ELSE "user_missing"]}
          /\ UNCHANGED resp
    /\ UNCHANGED <<products, users, events, item_similarity, trending_scores,
                   cache, now, tx>>

\* get_or_create_user for a user the SELECT did not find.
EventUser(request) ==
    /\ request \in pending
    /\ request.stage = "user_missing"
    /\ InsertUser(request)
    /\ UNCHANGED <<products, events, item_similarity, trending_scores, cache,
                   now, tx>>

\* create_event up to the commit of the event row.
EventCommit(request) ==
    /\ request \in pending
    /\ request.stage = "user_ready"
    /\ events' = CommitEvent(events, EventOf(request))
    /\ pending' = (pending \ {request})
                    \cup {[request EXCEPT !.stage = "committed"]}
    /\ UNCHANGED <<products, users, item_similarity, trending_scores, cache,
                   now, resp, tx>>

\* The rest of create_event: the user's recommendation keys are deleted and
\* the route answers 201.
EventInvalidate(request, delOk) ==
    /\ request \in pending
    /\ request.stage = "committed"
    /\ cache' = InvalidateUserRecommendations(cache, request.user_id, delOk)
    /\ pending' = pending \ {request}
    /\ resp' = [op |-> "create_event", status |-> 201,
                user_id |-> request.user_id, event |-> EventOf(request),
                deleted |-> Cardinality(DOMAIN cache)
                              - Cardinality(DOMAIN cache')]
    /\ UNCHANGED <<products, users, events, item_similarity, trending_scores,
                   now, tx>>

(***************************************************************************)
(* TrendingPipeline                                                        *)
(***************************************************************************)
Windows == {"7d", "30d"}

\* int(time_window.replace('d', ''))
WindowDays(time_window) == IF time_window = "7d" THEN 7 ELSE 30

\* self.event_weights
EventWeight(event_type) ==
    CASE event_type = "view" -> 1
      [] event_type = "add_to_cart" -> 3
      [] event_type = "purchase" -> 5

\* np.exp(-lambda * days_ago) in thousandths, by whole days: lambda is 0.3
\* for the 7d window and 0.1 for the 30d window.
Decay7d ==
    <<1000, 741, 549, 407, 301, 223, 165, 122>>

Decay30d ==
    <<1000, 905, 819, 741, 670, 607, 549, 497, 449, 407, 368, 333, 301, 273,
      247, 223, 202, 183, 165, 150, 135, 122, 111, 100, 91, 82, 74, 67, 61,
      55, 50>>

Decay(time_window, days_ago) ==
    IF time_window = "7d" THEN Decay7d[days_ago + 1] ELSE Decay30d[days_ago + 1]

RECURSIVE SumOver(_, _)
SumOver(f, S) ==
    IF S = {} THEN 0
    ELSE LET x == CHOOSE y \in S : TRUE IN f[x] + SumOver(f, S \ {x})

MaxOf(S) == CHOOSE x \in S : \A y \in S : x >= y

\* events_df: the events of the window joined with the active products.
WindowEvents(time_window) ==
    {i \in 1..Len(events) :
        /\ events[i].day >= now - WindowDays(time_window)
        /\ ProductExists(events[i].product_id)
        /\ products[events[i].product_id].is_active}

\* score_contribution per event, in thousandths.
ScoreContribution(time_window) ==
    [i \in WindowEvents(time_window) |->
        EventWeight(events[i].event_type)
            * Decay(time_window, now - events[i].day)]

\* The groupby: one row per (product_id, category_id) with the summed
\* contributions and the event count.
AggregatedScores(time_window) ==
    {[product_id |-> p,
      category_id |-> products[p].category_id,
      score |-> SumOver(ScoreContribution(time_window),
                        {i \in WindowEvents(time_window) : events[i].product_id = p}),
      event_count |-> Cardinality({i \in WindowEvents(time_window) :
                                      events[i].product_id = p})] :
        p \in {events[i].product_id : i \in WindowEvents(time_window)}}

\* Normalise dividing by the window's total instead of its maximum.
NormaliseByTotal(rows) ==
    LET total == SumOver([r \in rows |-> r.score], rows)
    IN  IF total > 0
        THEN {[r EXCEPT !.score = (r.score * 100000) \div total] : r \in rows}
        ELSE rows

\* (score / max) * 100, in thousandths of a point.
Normalise(rows) ==
    LET max == MaxOf({r.score : r \in rows})
    IN  IF max > 0
        THEN {[r EXCEPT !.score = (r.score * 100000) \div max] : r \in rows}
        ELSE rows

\* _compute_trending_scores
ComputeTrendingScores(time_window) ==
    IF WindowEvents(time_window) = {} THEN {}
    ELSE Normalise(AggregatedScores(time_window))

\* _save_scores: nothing for an empty frame; otherwise delete the window's
\* rows and insert the new ones, in one transaction.
SaveScores(table, scores, time_window) ==
    IF scores = {} THEN table
    ELSE {r \in table : r.time_window # time_window}
         \cup {[product_id |-> r.product_id, category_id |-> r.category_id,
                time_window |-> time_window, score |-> r.score,
                event_count |-> r.event_count] : r \in scores}

\* run(): both windows, then the cache invalidation when a Redis client is
\* configured.
RunTrending(redis) ==
    /\ trending_scores' =
         SaveScores(SaveScores(trending_scores, ComputeTrendingScores("7d"), "7d"),
                    ComputeTrendingScores("30d"), "30d")
    /\ cache' = IF redis
                THEN DeletePattern(
                        DeletePattern(cache,
                            <<"t", "r", "e", "n", "d", "i", "n", "g", ":", "*">>, TRUE),
                        <<"r", "e", "c", ":", "*">>, TRUE)
                ELSE cache
    /\ resp' = [op |-> "trending_run",
                computed |-> [w \in Windows |-> ComputeTrendingScores(w)]]
    /\ UNCHANGED <<products, users, events, item_similarity, now, pending, tx>>

\* Time passes.
Tick(days) ==
    /\ now' = now + days
    /\ resp' = NoResp
    /\ UNCHANGED <<products, users, events, item_similarity, trending_scores,
                   cache, pending, tx>>


(***************************************************************************)
(* TrendingService                                                         *)
(***************************************************************************)
\* The rows of a trending query: the window's scores joined with their
\* active products.
TrendingRows(time_window) ==
    {r \in trending_scores :
        /\ r.time_window = time_window
        /\ ProductExists(r.product_id)
        /\ products[r.product_id].is_active}

\* The ProductWithScore list built from the rows a query returned.
TrendingItems(trending) ==
    [idx \in 1..Len(trending) |->
        ToItem(trending[idx].row.product_id, trending[idx].row.score, idx)]

\* get_global_trending: every list the query may give (ordered by score
\* descending, limited to k).
GetGlobalTrending(k, time_window) ==
    {TrendingItems(Limit(s, k)) :
        s \in OrderByDesc({[key |-> r.score, row |-> r] :
                            r \in TrendingRows(time_window)})}

\* get_trending_by_category: the same, over the rows of one category.
GetTrendingByCategory(category_id, k, time_window) ==
    {TrendingItems(Limit(s, k)) :
        s \in OrderByDesc({[key |-> r.score, row |-> r] :
                            r \in {x \in TrendingRows(time_window) :
                                      x.category_id = category_id}})}

(***************************************************************************)
(* RecommendationService                                                   *)
(***************************************************************************)
RecentLimit == 50       \* .limit(50) of the recent_events query
SimilarK == 20          \* k of the similar lists the candidates come from

\* EVENT_WEIGHTS with every event type weighing 1.
EventWeightsFlat(event_type) == 1

\* EVENT_WEIGHTS.get(event.event_type, 1.0)
EVENT_WEIGHTS(event_type) ==
    CASE event_type = "view" -> 1
      [] event_type = "add_to_cart" -> 3
      [] event_type = "purchase" -> 5
      [] OTHER -> 1

Reverse(s) == [i \in 1..Len(s) |-> s[Len(s) + 1 - i]]

\* recent_events: the user's events, newest first, at most RecentLimit of
\* them.  Timestamps increase along `events`.
RecentEvents(user_id) ==
    Limit(Reverse(SelectSeq(events, LAMBDA e : e.user_id = user_id)),
          RecentLimit)

\* Every list SimilarityService.get_similar_products(product_id, k=20) may
\* return.
SimilarLists(product_id) ==
    {GetSimilarProducts(product_id, fetched, SimilarK) :
        fetched \in SimilarFetches(product_id, SimilarK)}

\* One list per interacted product, for every way the queries may answer.
SimilarChoices(product_ids) ==
    {f \in [product_ids -> UNION {SimilarLists(p) : p \in product_ids}] :
        \A p \in product_ids : f[p] \in SimilarLists(p)}

\* candidate_scores[product.id]["score"] += product.score * weight; the entry
\* is created, at the end of the dict, on its first use.
AddCandidate(candidate_scores, product, weight) ==
    IF \E i \in 1..Len(candidate_scores) : candidate_scores[i].id = product.id
    THEN LET i == CHOOSE j \in 1..Len(candidate_scores) :
                        candidate_scores[j].id = product.id
         IN  [candidate_scores EXCEPT ![i].key = @ + product.score * weight]
    ELSE Append(candidate_scores,
                [id |-> product.id, key |-> product.score * weight])

\* The inner loop over one similar list: interacted products and products of
\* another category than a (truthy) category_id are skipped.
RECURSIVE AddSimilar(_, _, _, _, _)
AddSimilar(candidate_scores, similar, weight, interacted, category_id) ==
    IF similar = <<>> THEN candidate_scores
    ELSE LET product == Head(similar)
             skip == \/ product.id \in interacted
                     \/ /\ Truthy(category_id)
                        /\ product.category_id # category_id
         IN  AddSimilar(IF skip THEN candidate_scores
                        ELSE AddCandidate(candidate_scores, product,
                                          weight),
                        Tail(similar), weight, interacted,
                        category_id)

\* The outer loop, over recent_events[lo..hi] in order, started from
\* candidate_scores.  The range is halved, and the first half's dict is
\* looked at before the second half starts, to keep the evaluation shallow.
RECURSIVE CandidateScores(_, _, _, _, _, _, _)
CandidateScores(candidate_scores, recent_events, lo, hi, similar_of, interacted, category_id) ==
    IF lo > hi THEN candidate_scores
    ELSE IF lo = hi
    THEN AddSimilar(candidate_scores,
                    similar_of[recent_events[lo].product_id],
                    EVENT_WEIGHTS(recent_events[lo].event_type),
                    interacted, category_id)
    ELSE LET mid == (lo + hi) \div 2
             first_half ==
                CandidateScores(candidate_scores, recent_events, lo, mid,
                                similar_of, interacted,
                                category_id)
         IN  IF first_half = <<>>
             THEN CandidateScores(<<>>, recent_events, mid + 1, hi,
                                  similar_of, interacted,
                                  category_id)
             ELSE CandidateScores(first_half, recent_events, mid + 1, hi,
                                  similar_of, interacted,
                                  category_id)

\* _get_collaborative_recommendations, for one answer of the similar queries:
\* the candidates sorted by score descending, the first k, ranked.
GetCollaborativeRecommendations(user_id, k, category_id, similar_of) ==
    LET recent_events == RecentEvents(user_id)
        interacted_product_ids ==
            {recent_events[i].product_id : i \in 1..Len(recent_events)}
        sorted_candidates ==
            Limit(SortDesc(CandidateScores(<<>>, recent_events, 1,
                                           Len(recent_events), similar_of,
                                           interacted_product_ids,
                                           category_id)), k)
    IN  [idx \in 1..Len(sorted_candidates) |->
            ToItem(sorted_candidates[idx].id, sorted_candidates[idx].key, idx)]

\* The cold start fallback: trending by category for a truthy category_id,
\* global trending otherwise, both over the 7d window.
ColdStart(k, category_id) ==
    IF Truthy(category_id)
    THEN {[recommendations |-> t, strategy |-> "cold_start_category"] :
            t \in GetTrendingByCategory(category_id, k, "7d")}
    ELSE {[recommendations |-> t, strategy |-> "trending"] :
            t \in GetGlobalTrending(k, "7d")}

\* get_recommendations past the cache: every (recommendations, strategy) the
\* call may compute.
GetRecommendations(user_id, k, category_id) ==
    LET event_count ==
            Cardinality({i \in 1..Len(events) : events[i].user_id = user_id})
        recent_events == RecentEvents(user_id)
        personalized ==
            {GetCollaborativeRecommendations(user_id, k, category_id, f) :
                f \in SimilarChoices({recent_events[i].product_id :
                                        i \in 1..Len(recent_events)})}
    IN  IF user_id \in users /\ event_count > 0
        THEN UNION {IF Len(recommendations) >= k \div 2
                    THEN {[recommendations |-> recommendations,
                           strategy |-> "personalized"]}
                    ELSE ColdStart(k, category_id) :
                        recommendations \in personalized}
        ELSE ColdStart(k, category_id)

(***************************************************************************)
(* GET /recommendations                                                    *)
(***************************************************************************)
\* cached["recommendations"] raises on a cached value of another shape;
\* nothing catches it.
RecommendFailed(user_id, k, category_id) ==
    /\ CacheGet(RecKey(user_id, k, category_id), TRUE) # NoValue
    /\ CacheGet(RecKey(user_id, k, category_id), TRUE).kind # "rec"
    /\ resp' = [op |-> "recommend", user_id |-> user_id, k |-> k,
                category_id |-> category_id, status |-> 500,
                items |-> <<>>, strategy |-> "none", from_cache |-> TRUE]
    /\ UNCHANGED cache

RecommendCached(user_id, k, category_id) ==
    /\ CacheGet(RecKey(user_id, k, category_id), TRUE) # NoValue
    /\ CacheGet(RecKey(user_id, k, category_id), TRUE).kind = "rec"
    /\ resp' = [op |-> "recommend", user_id |-> user_id, k |-> k,
                category_id |-> category_id, status |-> 200,
                items |-> CacheGet(RecKey(user_id, k, category_id),
                                   TRUE).recommendations,
                strategy |-> CacheGet(RecKey(user_id, k, category_id),
                                      TRUE).strategy,
                from_cache |-> TRUE]
    /\ UNCHANGED cache

RecommendComputed(user_id, k, category_id, setOk) ==
    /\ \E getOk \in BOOLEAN :
         CacheGet(RecKey(user_id, k, category_id), getOk) = NoValue
    /\ \E result \in GetRecommendations(user_id, k, category_id) :
         /\ cache' = CacheSet(cache, RecKey(user_id, k, category_id),
                              [kind |-> "rec",
                               recommendations |-> result.recommendations,
                               strategy |-> result.strategy], setOk)
         /\ resp' = [op |-> "recommend", user_id |-> user_id, k |-> k,
                     category_id |-> category_id, status |-> 200,
                     items |-> result.recommendations,
                     strategy |-> result.strategy, from_cache |-> FALSE]

\* The route handler and RecommendationService.get_recommendations: the
\* cached document if there is one, else the computed result, which is cached.
Recommend(user_id, k, category_id) ==
    /\ \/ RecommendCached(user_id, k, category_id)
       \/ RecommendFailed(user_id, k, category_id)
       \/ \E setOk \in BOOLEAN :
            RecommendComputed(user_id, k, category_id, setOk)
    /\ UNCHANGED <<products, users, events, item_similarity, trending_scores,
                   now, pending, tx>>

\* A recommend request up to its cache write: the cache is read and misses,
\* and the result is computed from the tables as they are now.
RecommendStart(user_id, k, category_id) ==
    /\ \E getOk \in BOOLEAN :
         CacheGet(RecKey(user_id, k, category_id), getOk) = NoValue
    /\ \E result \in GetRecommendations(user_id, k, category_id) :
         pending' = pending \cup {[user_id |-> user_id, k |-> k,
                                   category_id |-> category_id,
                                   recommendations |-> result.recommendations,
                                   strategy |-> result.strategy]}
    /\ UNCHANGED <<products, users, events, item_similarity, trending_scores,
                   cache, now, resp, tx>>

\* The rest of that request: _cache_recommendations, then the answer.
RecommendFinish(request, setOk) ==
    /\ request \in pending
    /\ pending' = pending \ {request}
    /\ cache' = CacheSet(cache,
                         RecKey(request.user_id, request.k,
                                request.category_id),
                         [kind |-> "rec",
                          recommendations |-> request.recommendations,
                          strategy |-> request.strategy], setOk)
    /\ resp' = [op |-> "recommend", user_id |-> request.user_id,
                k |-> request.k, category_id |-> request.category_id,
                status |-> 200, items |-> request.recommendations,
                strategy |-> request.strategy, from_cache |-> FALSE]
    /\ UNCHANGED <<products, users, events, item_similarity, trending_scores,
                   now, tx>>

(***************************************************************************)
(* SimilarityPipeline                                                      *)
(***************************************************************************)
min_co_occurrence == 2  \* self.min_co_occurrence
top_k_similar == 50     \* self.top_k_similar
lookback_days == 90     \* self.lookback_days

\* self.event_weights of the similarity pipeline
SimilarityEventWeight(event_type) ==
    CASE event_type = "view" -> 1
      [] event_type = "add_to_cart" -> 3
      [] event_type = "purchase" -> 5

\* The rows of the interactions query: the positions in `events` of the
\* events of the lookback window on active products.
InteractionEvents ==
    {i \in 1..Len(events) :
        /\ events[i].day >= now - lookback_days
        /\ ProductExists(events[i].product_id)
        /\ products[events[i].product_id].is_active}

\* The elements of a set of positive integers in ascending order.
Ascending(S) ==
    IF S = {} THEN <<>>
    ELSE SelectSeq([x \in 1..MaxOf(S) |-> x], LAMBDA x : x \in S)

\* The list of the values of a sequence given by a rule.
AsList(f) == SubSeq(f, 1, Len(f))

\* The distinct elements of a sequence, in the order of their first
\* appearance (pandas unique()).
Unique(s) ==
    LET first == Ascending({i \in 1..Len(s) :
                              \A j \in 1..(i - 1) : s[j] # s[i]})
    IN  [n \in 1..Len(first) |-> s[first[n]]]

\* The users in the order of their ids: users.id is serial, and a user is
\* created with their first event.
UsersById == Unique([i \in 1..Len(events) |-> events[i].user_id])

\* Interaction with repeated events of a pair counted once: the largest
\* weight instead of the sum.
InteractionNoRepeat(user_id, product_id) ==
    [user_id |-> user_id, product_id |-> product_id,
     weight |-> MaxOf({SimilarityEventWeight(events[i].event_type) :
                        i \in {j \in InteractionEvents :
                                  /\ events[j].user_id = user_id
                                  /\ events[j].product_id = product_id}})]

\* One row of the groupby: the summed weight of a (user, product) pair.
Interaction(user_id, product_id) ==
    [user_id |-> user_id, product_id |-> product_id,
     weight |-> SumOver([i \in InteractionEvents |->
                            SimilarityEventWeight(events[i].event_type)],
                        {i \in InteractionEvents :
                            /\ events[i].user_id = user_id
                            /\ events[i].product_id = product_id})]

RECURSIVE Concat(_)
Concat(ss) == IF ss = <<>> THEN <<>> ELSE Head(ss) \o Concat(Tail(ss))

\* The groupby rows of one user, sorted by product_id.
UserInteractions(user_id) ==
    LET product_ids == Ascending({events[i].product_id :
                                    i \in {j \in InteractionEvents :
                                              events[j].user_id = user_id}})
    IN  [m \in 1..Len(product_ids) |-> Interaction(user_id, product_ids[m])]

\* _load_interactions: the groupby rows, sorted by (user_id, product_id).
LoadInteractions ==
    LET user_ids == AsList(UsersById)
    IN  Concat([n \in 1..Len(user_ids) |-> UserInteractions(user_ids[n])])

batch_size == 500       \* products per block of the similarity computation

\* The largest s with s * s <= x, for 0 <= x <= 10000.
Isqrt(x) == CHOOSE s \in 0..100 : s * s <= x /\ (s + 1) * (s + 1) > x

\* Candidates with any co-occurrence count admitted.
MeetsMinAny(co_count) == co_count >= 1

\* co_counts[other_idx] >= self.min_co_occurrence
MeetsMin(co_count) == co_count >= min_co_occurrence

\* The body of the loop over a block's products, for every product in the
\* order of product_idx: its candidates, sorted and cut to top_k_similar, as
\* similarity pairs.  The cosine similarity of two product columns of the
\* user-item matrix is kept in hundredths, rounded down.
ProductPairs(interactions) ==
    LET product_list ==
            AsList(Unique([i \in 1..Len(interactions) |->
                              interactions[i].product_id]))
        n_products == Len(product_list)
        \* the column of a product in the user-item matrix: its rows
        column == AsList([g \in 1..n_products |->
                            SelectSeq(interactions,
                                      LAMBDA r : r.product_id = product_list[g])])
        norm2 == AsList([g \in 1..n_products |->
                           SumOver([i \in 1..Len(column[g]) |->
                                       column[g][i].weight * column[g][i].weight],
                                   1..Len(column[g]))])
        \* the users with both products, as positions in the two columns
        both(g, h) ==
            {ij \in (1..Len(column[g])) \X (1..Len(column[h])) :
                column[g][ij[1]].user_id = column[h][ij[2]].user_id}
        dot(g, h) ==
            SumOver([ij \in both(g, h) |->
                        column[g][ij[1]].weight * column[h][ij[2]].weight],
                    both(g, h))
        sim_score(g, h) ==
            Isqrt((dot(g, h) * dot(g, h) * 10000) \div (norm2[g] * norm2[h]))
        candidates(g) ==
            SelectSeq([h \in 1..n_products |->
                          [key |-> sim_score(g, h),
                           other_idx |-> h,
                           similar_id |-> product_list[h],
                           co_count |-> Cardinality(both(g, h))]],
                      LAMBDA c : c.other_idx # g /\ MeetsMin(c.co_count))
        top == AsList([g \in 1..n_products |->
                         Limit(SortDesc(candidates(g)), top_k_similar)])
        pairs(g) ==
            [n \in 1..Len(top[g]) |->
                [product_id |-> product_list[g],
                 similar_product_id |-> top[g][n].similar_id,
                 similarity_score |-> top[g][n].key,
                 co_occurrence_count |-> top[g][n].co_count]]
    IN  AsList([g \in 1..n_products |-> AsList(pairs(g))])

\* A block that stops one product early.
BatchEndShort(batch_start, size, n_products) ==
    Min(batch_start + size, n_products) - 1

\* batch_end = min(batch_start + batch_size, n_products)
BatchEnd(batch_start, size, n_products) == Min(batch_start + size, n_products)

\* The loop over range(0, n_products, batch_size): block after block, and in
\* a block product after product (global_idx = batch_start + local_idx), the
\* product's pairs are appended.
Batched(product_pairs, size) ==
    LET n_products == Len(product_pairs)
        batch_starts == SelectSeq([i \in 1..n_products |-> i - 1],
                                  LAMBDA batch_start : batch_start % size = 0)
        batch(batch_start) ==
            Concat([local_idx \in
                        1..(BatchEnd(batch_start, size, n_products) - batch_start)
                    |-> product_pairs[batch_start + local_idx]])
    IN  Concat([n \in 1..Len(batch_starts) |-> batch(batch_starts[n])])

\* _compute_similarity: the list of similarity pairs.
ComputeSimilarity(interactions) ==
    LET product_pairs == ProductPairs(interactions)
    IN  IF Len(product_pairs) < 2 THEN <<>>
        ELSE Batched(product_pairs, batch_size)

\* _save_similarities: nothing for an empty list; otherwise the table is
\* deleted and the pairs inserted, in one transaction.
SaveSimilarities(table, similarity_pairs) ==
    IF similarity_pairs = <<>> THEN table ELSE SeqToSet(similarity_pairs)

\* run(): nothing at all without interactions; otherwise compute, save, and
\* invalidate the similarity and the recommendation keys when a Redis client
\* is configured.
RunSimilarity(redis) ==
    LET interactions == LoadInteractions
        similarity_pairs == ComputeSimilarity(interactions)
    IN  /\ \/ /\ interactions = <<>>
              /\ resp' = [op |-> "similarity_run", interactions |-> <<>>,
                          similarity_pairs |-> <<>>, invalidated |-> FALSE]
              /\ UNCHANGED <<item_similarity, cache>>
           \/ /\ interactions # <<>>
              /\ item_similarity' =
                    SaveSimilarities(item_similarity, similarity_pairs)
              /\ cache' = IF redis
                          THEN DeletePattern(
                                  DeletePattern(cache,
                                      <<"s", "i", "m", ":", "*">>, TRUE),
                                  <<"r", "e", "c", ":", "*">>, TRUE)
                          ELSE cache
              /\ resp' = [op |-> "similarity_run",
                          interactions |-> interactions,
                          similarity_pairs |-> similarity_pairs,
                          invalidated |-> redis]
        /\ UNCHANGED <<products, users, events, trending_scores, now,
                       pending, tx>>

(***************************************************************************)
(* The pipelines' saves, statement by statement.  A save runs inside       *)
(* `with self.engine.begin()`: its DELETE and INSERTs act on the           *)
(* transaction's copy of the table (`working`), the other sessions read    *)
(* the committed table until the block is left, and an exception inside    *)
(* the block rolls the transaction back.                                   *)
(***************************************************************************)
\* Every statement committed on its own: the other sessions read what the
\* transaction has written so far.
TxVisibleAutocommit(committed, working) == working

\* What the other sessions read of a table while a transaction has written
\* `working`.
TxVisible(committed, working) == committed

\* A rollback that keeps what was written.
TxRollbackKeep(committed, working) == working

\* The committed table after a rollback.
TxRollback(committed, working) == committed

\* The rows of a window in the table.
WindowRows(table, time_window) == {r \in table : r.time_window = time_window}

\* The scores frame with its time_window column.
ScoreRows(scores, time_window) ==
    {[product_id |-> r.product_id, category_id |-> r.category_id,
      time_window |-> time_window, score |-> r.score,
      event_count |-> r.event_count] : r \in scores}

\* SimilarityPipeline.run up to the DELETE of _save_similarities, for a run
\* that computed pairs.
SimilarityBegin(redis) ==
    /\ tx = NoTx
    /\ LET interactions == LoadInteractions
           similarity_pairs == ComputeSimilarity(interactions)
       IN  /\ similarity_pairs # <<>>
           /\ tx' = [job |-> "similarity", redis |-> redis, open |-> TRUE,
                     before |-> item_similarity,
                     interactions |-> interactions,
                     similarity_pairs |-> similarity_pairs,
                     rows |-> SeqToSet(similarity_pairs),
                     working |-> {}]
           /\ item_similarity' = TxVisible(item_similarity, {})
    /\ UNCHANGED <<products, users, events, trending_scores, cache, now, resp,
                   pending>>

\* TrendingPipeline.run starts.
TrendingBegin(redis) ==
    /\ tx = NoTx
    /\ tx' = [job |-> "trending", redis |-> redis, open |-> FALSE,
              before |-> trending_scores,
              time_windows |-> <<"7d", "30d">>,
              computed |-> [w \in Windows |-> {}],
              rows |-> {}, working |-> {}]
    /\ UNCHANGED <<products, users, events, item_similarity, trending_scores,
                   cache, now, resp, pending>>

\* The next window of the loop: its scores are computed; _save_scores
\* returns for an empty frame and otherwise runs up to its DELETE.
TrendingWindow ==
    /\ tx.job = "trending" /\ ~tx.open /\ tx.time_windows # <<>>
    /\ LET time_window == Head(tx.time_windows)
           scores == ComputeTrendingScores(time_window)
       IN  IF scores = {}
           THEN /\ tx' = [tx EXCEPT !.time_windows = Tail(@)]
                /\ UNCHANGED trending_scores
           ELSE /\ tx' = [tx EXCEPT
                            !.open = TRUE,
                            !.computed[time_window] = scores,
                            !.rows = ScoreRows(scores, time_window),
                            !.working = trending_scores
                                \ WindowRows(trending_scores, time_window)]
                /\ trending_scores' =
                      TxVisible(trending_scores,
                                trending_scores
                                    \ WindowRows(trending_scores, time_window))
    /\ UNCHANGED <<products, users, events, item_similarity, cache, now, resp,
                   pending>>

\* One more row is inserted.
TxInsert ==
    /\ tx.job # "none" /\ tx.open /\ tx.rows \ tx.working # {}
    /\ LET row == CHOOSE r \in tx.rows \ tx.working : TRUE
       IN  /\ tx' = [tx EXCEPT !.working = @ \cup {row}]
           /\ IF tx.job = "similarity"
              THEN /\ item_similarity' =
                         TxVisible(item_similarity, tx.working \cup {row})
                   /\ UNCHANGED trending_scores
              ELSE /\ trending_scores' =
                         TxVisible(trending_scores, tx.working \cup {row})
                   /\ UNCHANGED item_similarity
    /\ UNCHANGED <<products, users, events, cache, now, resp, pending>>

\* A statement of the block raises: the transaction is rolled back and the
\* exception ends the run.
TxFail ==
    /\ tx.job # "none" /\ tx.open
    /\ IF tx.job = "similarity"
       THEN /\ item_similarity' = TxRollback(item_similarity, tx.working)
            /\ UNCHANGED trending_scores
       ELSE /\ trending_scores' = TxRollback(trending_scores, tx.working)
            /\ UNCHANGED item_similarity
    /\ resp' = [op |-> "run_failed", job |-> tx.job,
                inserted |-> Cardinality(tx.rows \cap tx.working)]
    /\ tx' = NoTx
    /\ UNCHANGED <<products, users, events, cache, now, pending>>

\* The block of _save_similarities is left: commit, then the rest of run().
SimilarityCommit ==
    /\ tx.job = "similarity" /\ tx.open /\ tx.rows \subseteq tx.working
    /\ item_similarity' = tx.working
    /\ cache' = IF tx.redis
                THEN DeletePattern(
                        DeletePattern(cache,
                            <<"s", "i", "m", ":", "*">>, TRUE),
                        <<"r", "e", "c", ":", "*">>, TRUE)
                ELSE cache
    /\ resp' = [op |-> "similarity_run", interactions |-> tx.interactions,
                similarity_pairs |-> tx.similarity_pairs,
                invalidated |-> tx.redis]
    /\ tx' = NoTx
    /\ UNCHANGED <<products, users, events, trending_scores, now, pending>>

\* The block of _save_scores is left: commit, and on to the next window.
TrendingCommit ==
    /\ tx.job = "trending" /\ tx.open /\ tx.rows \subseteq tx.working
    /\ trending_scores' = tx.working
    /\ tx' = [tx EXCEPT !.open = FALSE, !.time_windows = Tail(@),
                        !.rows = {}, !.working = {}]
    /\ UNCHANGED <<products, users, events, item_similarity, cache, now, resp,
                   pending>>

\* The loop of TrendingPipeline.run is over: the cache invalidation.
TrendingEnd ==
    /\ tx.job = "trending" /\ ~tx.open /\ tx.time_windows = <<>>
    /\ cache' = IF tx.redis
                THEN DeletePattern(
                        DeletePattern(cache,
                            <<"t", "r", "e", "n", "d", "i", "n", "g", ":", "*">>, TRUE),
                        <<"r", "e", "c", ":", "*">>, TRUE)
                ELSE cache
    /\ resp' = [op |-> "trending_run", computed |-> tx.computed]
    /\ tx' = NoTx
    /\ UNCHANGED <<products, users, events, item_similarity, trending_scores,
                   now, pending>>

(***************************************************************************)
(* SpecSim: similar requests against a catalog and a similarity table left *)
(* by an earlier pipeline run.                                             *)
(***************************************************************************)
SimSource == 1     \* the product whose outgoing edges the table holds

\* The requests made: (product_id, k).
SimRequests ==
    {<<SimSource, 1>>, <<SimSource, 2>>, <<SimSource + 1, 1>>,
     <<MissingProduct, 1>>}

\* What a neighbour of the source is in an initial state: no edge, or an edge
\* with a score of SimScoreValues to a product of the source's category (1)
\* or of another (2).
SimNeighbourKinds ==
    <<[score |-> 0, category_id |-> 2],
      [score |-> 80, category_id |-> 2],
      [score |-> 80, category_id |-> 1],
      [score |-> 90, category_id |-> 2],
      [score |-> 90, category_id |-> 1]>>

\* One initial state per multiset of neighbour kinds (the neighbours are
\* interchangeable, so their kinds are taken in non-decreasing order) with at
\* most two edges of a kind, and per choice of at most one inactive product:
\* the source or the last neighbour.
SimShapes ==
    {f \in [Products -> 1..Len(SimNeighbourKinds)] :
        /\ f[SimSource] = 1
        /\ \A p, q \in Products \ {SimSource} : p < q => f[p] <= f[q]
        /\ \A i \in 2..Len(SimNeighbourKinds) :
              Cardinality({p \in Products \ {SimSource} : f[p] = i}) <= 2}

SimCatalog(f, off) ==
    [p \in Products |->
        [category_id |-> IF p = SimSource THEN 1
                         ELSE SimNeighbourKinds[f[p]].category_id,
         is_active |-> p # off]]

SimTable(f) ==
    {[product_id |-> SimSource, similar_product_id |-> q,
      similarity_score |-> SimNeighbourKinds[f[q]].score,
      co_occurrence_count |-> 2] :
        q \in {x \in Products \ {SimSource} : SimNeighbourKinds[f[x]].score # 0}}

InitSim ==
    /\ \E f \in SimShapes, off \in {0, SimSource, NProducts} :
         /\ products = SimCatalog(f, off)
         /\ item_similarity = SimTable(f)
    /\ users = {}
    /\ events = <<>>
    /\ trending_scores = {}
    /\ cache = <<>>
    /\ now = 0
    /\ resp = NoResp
    /\ pending = {}
    /\ tx = NoTx

NextSim ==
    \/ \E request \in SimRequests : Similar(request[1], request[2])
    \/ CacheExpire

SpecSim == InitSim /\ [][NextSim]_vars

(***************************************************************************)
(* SpecTrend: events arrive, time passes, the trending pipeline runs.      *)
(***************************************************************************)
MaxDay == 8             \* the clock stops here
MaxTrendEvents == 2     \* events recorded in SpecTrend
TickDays == {4}
TrendUsers == {<<"a">>}
TrendProducts == {1, 2, 3}

\* Product 3 is inactive; categories alternate.
TrendCatalog ==
    [p \in Products |-> [category_id |-> ((p - 1) % 2) + 1, is_active |-> p # 3]]

InitTrend ==
    /\ products = TrendCatalog
    /\ item_similarity = {}
    /\ users = {}
    /\ events = <<>>
    /\ trending_scores = {}
    /\ cache = <<>>
    /\ now = 0
    /\ resp = NoResp
    /\ pending = {}
    /\ tx = NoTx

NextTrend ==
    \/ \E user_id \in TrendUsers, product_id \in TrendProducts,
          event_type \in EventTypes :
         Len(events) < MaxTrendEvents /\ CreateEvent(user_id, product_id, event_type)
    \/ \E days \in TickDays : now + days <= MaxDay /\ Tick(days)
    \/ \E redis \in BOOLEAN : RunTrending(redis)

SpecTrend == InitTrend /\ [][NextTrend]_vars

(***************************************************************************)
(* SpecRec: recommend requests while a visitor's events arrive, against a  *)
(* similarity table and a trending table left by earlier pipeline runs.    *)
(***************************************************************************)
MaxRecEvents == 2       \* events the visitor records in SpecRec

RecVisitor == <<"a">>   \* unknown to the store until their first event
RecRegular == <<"b">>   \* has a history longer than RecentLimit
RecIdle == <<"c">>      \* known to the store, without any event

\* Products 3 and 4 are of category 2, the others of category 1; product 4
\* is inactive.
RecCatalog ==
    [p \in Products |->
        [category_id |-> IF p \in {3, 4} THEN 2 ELSE 1, is_active |-> p # 4]]

RecEdge(product_id, similar_product_id, similarity_score) ==
    [product_id |-> product_id, similar_product_id |-> similar_product_id,
     similarity_score |-> similarity_score, co_occurrence_count |-> 2]

\* Product 3 has no outgoing edge.
RecTable ==
    {RecEdge(1, 2, 80), RecEdge(1, 3, 60),
     RecEdge(2, 1, 80), RecEdge(2, 4, 50)}

RecScore(product_id, time_window, score) ==
    [product_id |-> product_id,
     category_id |-> RecCatalog[product_id].category_id,
     time_window |-> time_window, score |-> score, event_count |-> 1]

RecTrending ==
    {RecScore(1, "7d", 100000), RecScore(2, "7d", 60000),
     RecScore(3, "7d", 60000), RecScore(4, "7d", 80000),
     RecScore(5, "30d", 100000)}

\* The regular's history: a view of product 2, then RecentLimit events on
\* product 1, views but for the last, a purchase.
RecLongHistory ==
    [i \in 1..(RecentLimit + 1) |->
        [user_id |-> RecRegular, product_id |-> IF i = 1 THEN 2 ELSE 1,
         event_type |-> IF i = RecentLimit + 1 THEN "purchase" ELSE "view",
         day |-> 0]]

\* The events the visitor may record: (product_id, event_type).
RecEvents ==
    {<<1, "purchase">>, <<2, "add_to_cart">>, <<3, "view">>,
     <<MissingProduct, "view">>}

\* The requests made: (user_id, k, category_id).
RecRequests ==
    {<<RecVisitor, 1, 1>>, <<RecVisitor, 3, NoCategory>>,
     <<RecVisitor, 3, 0>>, <<RecRegular, 2, NoCategory>>,
     <<RecIdle, 2, 2>>}

InitRec ==
    /\ products = RecCatalog
    /\ item_similarity = RecTable
    /\ users = {RecRegular, RecIdle}
    /\ events = RecLongHistory
    /\ trending_scores = RecTrending
    /\ cache = <<>>
    /\ now = 0
    /\ resp = NoResp
    /\ pending = {}
    /\ tx = NoTx

NextRec ==
    \/ \E request \in RecRequests :
         Recommend(request[1], request[2], request[3])
    \/ \E event \in RecEvents :
         /\ Len(events) < Len(RecLongHistory) + MaxRecEvents
         /\ CreateEvent(RecVisitor, event[1], event[2])
    \/ CacheExpire

SpecRec == InitRec /\ [][NextRec]_vars

(***************************************************************************)
(* SpecPipe: events arrive, time passes, the similarity pipeline runs.     *)
(***************************************************************************)
MaxPipeEvents == 3      \* events recorded in SpecPipe on an empty log

\* One product more than two above top_k_similar, all of category 1;
\* product 3 is inactive.
PipeCatalog ==
    [p \in 1..(top_k_similar + 3) |-> [category_id |-> 1, is_active |-> p # 3]]

PipeEvent(user_id, product_id, event_type) ==
    [user_id |-> user_id, product_id |-> product_id,
     event_type |-> event_type, day |-> 0]

\* A log in which products 1 and 2 co-occur for two users.
PipePairLog ==
    <<PipeEvent(<<"a">>, 1, "view"), PipeEvent(<<"a">>, 2, "purchase"),
      PipeEvent(<<"a">>, 3, "view"), PipeEvent(<<"b">>, 1, "add_to_cart"),
      PipeEvent(<<"b">>, 2, "view")>>

\* A log in which two users have viewed every product of the catalog.
PipeWideLog ==
    [i \in 1..(2 * (top_k_similar + 3)) |->
        IF i <= top_k_similar + 3
        THEN PipeEvent(<<"a">>, i, "view")
        ELSE PipeEvent(<<"b">>, i - (top_k_similar + 3), "view")]

\* The events recorded: (user_id, product_id, event_type).
PipeEvents ==
    {<<<<"a">>, 1, "view">>, <<<<"a">>, 2, "purchase">>,
     <<<<"b">>, 1, "add_to_cart">>, <<<<"a">>, MissingProduct + top_k_similar, "view">>}

InitPipe ==
    /\ products = PipeCatalog
    /\ item_similarity = {}
    /\ events \in {<<>>, PipePairLog, PipeWideLog}
    /\ users = {events[i].user_id : i \in 1..Len(events)}
    /\ trending_scores = {}
    /\ cache = <<>>
    /\ now = 0
    /\ resp = NoResp
    /\ pending = {}
    /\ tx = NoTx

\* Time passes once: by a third of the lookback window or beyond it.
PipeTickDays == {lookback_days \div 3, lookback_days + 1}

NextPipe ==
    \/ \E event \in PipeEvents :
         /\ Len(events) < MaxPipeEvents \/ Len(events) = Len(PipePairLog)
         /\ CreateEvent(event[1], event[2], event[3])
    \/ \E days \in PipeTickDays : now = 0 /\ Tick(days)
    \/ RunSimilarity(TRUE)

SpecPipe == InitPipe /\ [][NextPipe]_vars

(***************************************************************************)
(* SpecInval: events of several users and the two pipelines against a      *)
(* cache that holds recommendation entries of every user and a similarity  *)
(* entry.                                                                  *)
(***************************************************************************)
MaxInvalEvents == 1     \* events recorded in SpecInval on top of the log
InvalK == 2             \* k of the cached requests

\* User ids: plain, one continuing another behind a ':', and one holding
\* the pattern character '*'.
InvalUsers == {<<"a">>, <<"a", "b">>, <<"a", ":", "b">>, <<"a", "*">>}

InvalKeys ==
    {RecKey(user_id, InvalK, NoCategory) : user_id \in InvalUsers}
        \cup {SimKey(1, InvalK)}

\* What the requests stored before the first pipeline run: with empty score
\* tables a similar list is empty and every recommend falls back to the
\* (empty) global trending list.
InvalCache ==
    [key \in InvalKeys |->
        IF key = SimKey(1, InvalK)
        THEN [kind |-> "sim", items |-> <<>>]
        ELSE [kind |-> "rec", recommendations |-> <<>>,
              strategy |-> "trending"]]

InitInval ==
    /\ products = TrendCatalog
    /\ item_similarity = {}
    /\ events = PipePairLog
    /\ users = {events[i].user_id : i \in 1..Len(events)}
    /\ trending_scores = {}
    /\ cache = InvalCache
    /\ now = 0
    /\ resp = NoResp
    /\ pending = {}
    /\ tx = NoTx

NextInval ==
    \/ \E user_id \in InvalUsers :
         /\ Len(events) < Len(PipePairLog) + MaxInvalEvents
         /\ CreateEvent(user_id, 1, "view")
    \/ now = 0 /\ Tick(lookback_days + 1)
    \/ \E redis \in BOOLEAN : RunTrending(redis)
    \/ \E redis \in BOOLEAN : RunSimilarity(redis)

SpecInval == InitInval /\ [][NextInval]_vars

(***************************************************************************)
(* SpecCache: recommend and similar requests while cached values are       *)
(* damaged, expire, and Redis fails.                                       *)
(***************************************************************************)
\* The requests made: recommend (user_id, k, category_id) and similar
\* (product_id, k).
CacheRecRequests ==
    {<<RecIdle, 2, NoCategory>>, <<RecIdle, 1, 2>>, <<RecIdle, 2, 1>>}
CacheSimRequests == {<<1, 2>>, <<2, 1>>, <<3, 1>>}

InitCache ==
    /\ products = RecCatalog
    /\ item_similarity = RecTable
    /\ users = {RecIdle}
    /\ events = <<>>
    /\ trending_scores = RecTrending
    /\ cache = <<>>
    /\ now = 0
    /\ resp = NoResp
    /\ pending = {}
    /\ tx = NoTx

NextCache ==
    \/ \E request \in CacheRecRequests :
         Recommend(request[1], request[2], request[3])
    \/ \E request \in CacheSimRequests : Similar(request[1], request[2])
    \/ \E key \in DOMAIN cache, kind \in CorruptKinds : CacheCorrupt(key, kind)
    \/ CacheExpire

SpecCache == InitCache /\ [][NextCache]_vars

(***************************************************************************)
(* SpecRace: a visitor's events arrive while recommend requests for the    *)
(* visitor are under way.                                                  *)
(***************************************************************************)
MaxRaceEvents == 2      \* events the visitor records in SpecRace
MaxPending == 1         \* recommend requests under way at once
RaceK == 2              \* k of the requests

InitRace ==
    /\ products = RecCatalog
    /\ item_similarity = RecTable
    /\ users = {}
    /\ events = <<>>
    /\ trending_scores = RecTrending
    /\ cache = <<>>
    /\ now = 0
    /\ resp = NoResp
    /\ pending = {}
    /\ tx = NoTx

NextRace ==
    \/ Recommend(RecVisitor, RaceK, NoCategory)
    \/ /\ Cardinality(pending) < MaxPending
       /\ RecommendStart(RecVisitor, RaceK, NoCategory)
    \/ \E request \in pending, setOk \in BOOLEAN :
         RecommendFinish(request, setOk)
    \/ \E event \in RecEvents :
         /\ Len(events) < MaxRaceEvents
         /\ CreateEvent(RecVisitor, event[1], event[2])

SpecRace == InitRace /\ [][NextRace]_vars

(***************************************************************************)
(* SpecList: a visitor browses, similar and recommend requests are        *)
(* answered from tables with candidates of equal score, a product is      *)
(* taken out of the catalog.                                               *)
(***************************************************************************)
MaxListEvents == 2      \* events the visitor records in SpecList

\* The catalog of SpecRec with every product active.
ListCatalog ==
    [p \in Products |->
        [category_id |-> RecCatalog[p].category_id, is_active |-> TRUE]]

\* From product 1 (category 1): products 3 and 4 of category 2 at 0.60 and
\* product 2 of category 1 at 0.50, ranked 0.60 all three.  From product 3:
\* product 5 at 0.60.
ListTable ==
    {RecEdge(1, 2, 50), RecEdge(1, 3, 60), RecEdge(1, 4, 60),
     RecEdge(3, 5, 60)}

\* The events the visitor may record: (product_id, event_type).
ListEvents == {<<1, "view">>, <<3, "view">>}

\* The requests made: recommend (user_id, k, category_id) and similar
\* (product_id, k).
ListRecRequests == {<<RecVisitor, 3, NoCategory>>, <<RecVisitor, 2, 2>>}
ListSimRequests == {<<1, 3>>, <<1, 2>>, <<3, 1>>}

\* The products that may be taken out of the catalog.
ListWithdrawn == {4}

InitList ==
    /\ products = ListCatalog
    /\ item_similarity = ListTable
    /\ users = {}
    /\ events = <<>>
    /\ trending_scores = RecTrending
    /\ cache = <<>>
    /\ now = 0
    /\ resp = NoResp
    /\ pending = {}
    /\ tx = NoTx

NextList ==
    \/ \E request \in ListRecRequests :
         Recommend(request[1], request[2], request[3])
    \/ \E request \in ListSimRequests : Similar(request[1], request[2])
    \/ \E event \in ListEvents :
         /\ Len(events) < MaxListEvents
         /\ CreateEvent(RecVisitor, event[1], event[2])
    \/ \E product_id \in ListWithdrawn : Deactivate(product_id)
    \/ CacheExpire

SpecList == InitList /\ [][NextList]_vars

(***************************************************************************)
(* SpecEvent: event submissions of a visitor are processed side by side,   *)
(* statement by statement, while the visitor asks for recommendations.     *)
(***************************************************************************)
MaxSubmissions == 2     \* event submissions under way at once
MaxEventLog == 2        \* events recorded in SpecEvent

\* The events submitted: (product_id, event_type).
EventSubmissions == {<<1, "view">>, <<2, "purchase">>, <<MissingProduct, "view">>}

InitEvent ==
    /\ products = RecCatalog
    /\ item_similarity = RecTable
    /\ users = {}
    /\ events = <<>>
    /\ trending_scores = RecTrending
    /\ cache = <<>>
    /\ now = 0
    /\ resp = NoResp
    /\ pending = {}
    /\ tx = NoTx

NextEvent ==
    \/ \E event \in EventSubmissions, id \in 1..MaxSubmissions :
         /\ Len(events) + Cardinality(pending) < MaxEventLog
         /\ \A other \in 1..(id - 1) : \E request \in pending :
                request.id = other
         /\ EventStart(id, RecVisitor, event[1], event[2])
    \/ \E request \in pending : EventUser(request)
    \/ \E request \in pending : EventCommit(request)
    \/ \E request \in pending, delOk \in BOOLEAN :
         EventInvalidate(request, delOk)
    \/ Recommend(RecVisitor, RaceK, NoCategory)

SpecEvent == InitEvent /\ [][NextEvent]_vars

(***************************************************************************)
(* SpecTx: the two pipelines replace tables left by earlier runs while     *)
(* similar and recommend requests read them.                               *)
(***************************************************************************)
\* The similarity table an earlier run left.
TxTable ==
    {RecEdge(1, 2, 90), RecEdge(2, 1, 90), RecEdge(1, 5, 60), RecEdge(5, 1, 60)}

\* The trending table an earlier run left.
TxTrending ==
    {[product_id |-> p, category_id |-> TrendCatalog[p].category_id,
      time_window |-> w, score |-> 100000, event_count |-> 1] :
        p \in {4, 5}, w \in Windows}

InitTx ==
    /\ products = TrendCatalog
    /\ item_similarity = TxTable
    /\ events = PipePairLog
    /\ users = {events[i].user_id : i \in 1..Len(events)}
    /\ trending_scores = TxTrending
    /\ cache = <<>>
    /\ now = 0
    /\ resp = NoResp
    /\ pending = {}
    /\ tx = NoTx

NextTx ==
    \/ \E redis \in BOOLEAN : SimilarityBegin(redis)
    \/ \E redis \in BOOLEAN : TrendingBegin(redis)
    \/ TrendingWindow
    \/ TxInsert
    \/ TxFail
    \/ SimilarityCommit
    \/ TrendingCommit
    \/ TrendingEnd
    \/ Similar(1, 2)
    \/ Recommend(RecIdle, 2, NoCategory)
    \/ CacheExpire

SpecTx == InitTx /\ [][NextTx]_vars

(***************************************************************************)
(* SpecBatch: the trending pipeline replaces the table an earlier run left *)
(* while recommend requests of a user without history are under way.       *)
(***************************************************************************)
BatchK == 2             \* k of the requests

NextBatch ==
    \/ TrendingBegin(TRUE)
    \/ TrendingWindow
    \/ TxInsert
    \/ TrendingCommit
    \/ TrendingEnd
    \/ Recommend(RecIdle, BatchK, NoCategory)
    \/ /\ Cardinality(pending) < MaxPending
       /\ RecommendStart(RecIdle, BatchK, NoCategory)
    \/ \E request \in pending, setOk \in BOOLEAN :
         RecommendFinish(request, setOk)

SpecBatch == InitTx /\ [][NextBatch]_vars

(***************************************************************************)
(* SpecKey: the cache keys of two requests, side by side.                  *)
(***************************************************************************)
\* user_id is any string, k an integer of 1..100, category_id an optional
\* integer, product_id an integer.
KeyUsers == {<<"a">>, <<"a", ":", "1">>, <<"a", ":", "1", ":", "2">>}
KeyKs == {1, 12}
KeyCategories == {NoCategory, 0, 1, 2}
KeyProducts == {1, 12}

KeyRecRequests == KeyUsers \X KeyKs \X KeyCategories
KeySimRequests == KeyProducts \X KeyKs

\* The keys get_recommendations builds for two requests.
RecKeys(first, second) ==
    /\ resp' = [op |-> "keys", first |-> first, second |-> second,
                first_key |-> RecKey(first[1], first[2], first[3]),
                second_key |-> RecKey(second[1], second[2], second[3])]
    /\ UNCHANGED <<products, users, events, item_similarity, trending_scores,
                   cache, now, pending, tx>>

\* The keys get_similar_products builds for two requests.
SimKeys(first, second) ==
    /\ resp' = [op |-> "keys", first |-> first, second |-> second,
                first_key |-> SimKey(first[1], first[2]),
                second_key |-> SimKey(second[1], second[2])]
    /\ UNCHANGED <<products, users, events, item_similarity, trending_scores,
                   cache, now, pending, tx>>

NextKey ==
    \/ \E first, second \in KeyRecRequests : RecKeys(first, second)
    \/ \E first, second \in KeySimRequests : SimKeys(first, second)

SpecKey == InitCache /\ [][NextKey]_vars

(***************************************************************************)
(* Properties of similar (SpecSim).                                        *)
(***************************************************************************)
SimilarAnswered == resp.op = "similar" /\ resp.status = 200

\* The stored edges source -> q, by q.
EdgesTo(source, q) ==
    {r \in item_similarity : r.product_id = source /\ r.similar_product_id = q}

\* The ranking score the specification gives an edge, in thousandths.
SpecRanking(source, r) ==
    IF products[r.similar_product_id].category_id = products[source].category_id
    THEN r.similarity_score * 12
    ELSE r.similarity_score * 10

\* The stored active neighbours of a source.
ActiveNeighbours(source) ==
    {r \in item_similarity :
        r.product_id = source /\ products[r.similar_product_id].is_active}

ItemIds(items) == {items[i].id : i \in 1..Len(items)}

\* C5: every item similar returns carries the stored, unboosted
\* similarity_score of the edge source -> item, also when the item shares the
\* source's category and was ranked with the 1.2 boost.
C5_DisplayScoreUnboosted ==
    SimilarAnswered =>
        \A i \in 1..Len(resp.items) :
            \E r \in EdgesTo(resp.product_id, resp.items[i].id) :
                resp.items[i].score = r.similarity_score

\* A boosted same-category item (0.80, ranked at 0.96) is listed before an
\* item of another category with the higher stored score 0.90.
C5_Witness ==
    /\ SimilarAnswered
    /\ ~resp.from_cache
    /\ Len(resp.items) = 2
    /\ resp.items[1].category_id = products[resp.product_id].category_id
    /\ resp.items[2].category_id # products[resp.product_id].category_id
    /\ resp.items[1].score = 80
    /\ resp.items[2].score = 90

\* The ranking score of a returned item.
ItemRanking(source, item) ==
    IF item.category_id = products[source].category_id
    THEN item.score * 12 ELSE item.score * 10

RankingNonIncreasing ==
    \A i \in 1..Len(resp.items) - 1 :
        ItemRanking(resp.product_id, resp.items[i])
            >= ItemRanking(resp.product_id, resp.items[i + 1])

\* C6 as stated: similar returns the k stored active neighbours with the
\* highest ranking score over ALL stored neighbours of the source, in
\* non-increasing ranking order; no stored neighbour outside the result has a
\* strictly higher ranking score than one inside it.
C6_TopKOverAllNeighbours ==
    (SimilarAnswered /\ ~resp.from_cache) =>
        /\ Len(resp.items) = Min(resp.k, Cardinality(ActiveNeighbours(resp.product_id)))
        /\ RankingNonIncreasing
        /\ \A o \in ActiveNeighbours(resp.product_id) :
             o.similar_product_id \notin ItemIds(resp.items) =>
                \A i \in 1..Len(resp.items) :
                    SpecRanking(resp.product_id, o)
                        <= ItemRanking(resp.product_id, resp.items[i])

\* C6 amended: the selection is over the 3k active neighbours with the
\* highest stored similarity_score.  The result has min(k, number of active
\* neighbours) items in non-increasing ranking order, and an active neighbour
\* outside the result outranks an item inside it only if at least 3k other
\* active neighbours have a similarity_score no lower than its own (it was
\* cut off by the candidate limit).
C6_TopKOverFetched ==
    (SimilarAnswered /\ ~resp.from_cache) =>
        /\ Len(resp.items) = Min(resp.k, Cardinality(ActiveNeighbours(resp.product_id)))
        /\ RankingNonIncreasing
        /\ \A o \in ActiveNeighbours(resp.product_id) :
             (/\ o.similar_product_id \notin ItemIds(resp.items)
              /\ \E i \in 1..Len(resp.items) :
                    SpecRanking(resp.product_id, o)
                        > ItemRanking(resp.product_id, resp.items[i]))
             => Cardinality({n \in ActiveNeighbours(resp.product_id) \ {o} :
                                n.similarity_score >= o.similarity_score})
                    >= 3 * resp.k

\* More active neighbours than the candidate limit, and a full result.
C6_Witness ==
    /\ SimilarAnswered
    /\ ~resp.from_cache
    /\ Cardinality(ActiveNeighbours(resp.product_id)) > 3 * resp.k
    /\ Len(resp.items) = resp.k

\* C7: for every candidate similar considers, the ranking score is at least
\* the display score, and the two are equal when the candidate's category
\* differs from the source's.
C7_RankingAtLeastDisplay ==
    (SimilarAnswered /\ ~resp.from_cache) =>
        \A r \in SimilarCandidates(resp.product_id) :
            /\ RankingScore(products[resp.product_id].category_id, r)
                    >= r.similarity_score * 10
            /\ products[r.similar_product_id].category_id
                    # products[resp.product_id].category_id
                => RankingScore(products[resp.product_id].category_id, r)
                    = r.similarity_score * 10

\* A request that considered a same-category candidate (ranked strictly above
\* its display score) and a candidate of another category.
C7_Witness ==
    /\ SimilarAnswered
    /\ ~resp.from_cache
    /\ \E r, q \in SimilarCandidates(resp.product_id) :
         /\ products[r.similar_product_id].category_id
                = products[resp.product_id].category_id
         /\ RankingScore(products[resp.product_id].category_id, r)
                > r.similarity_score * 10
         /\ products[q.similar_product_id].category_id
                # products[resp.product_id].category_id

TrendingRan == resp.op = "trending_run"

\* The qualifying events of a window: inside the window, on an active product.
Qualifying(w) ==
    {i \in 1..Len(events) :
        /\ now - events[i].day <= (IF w = "7d" THEN 7 ELSE 30)
        /\ products[events[i].product_id].is_active}

C10_PersistedIsComputed ==
    TrendingRan =>
        \A w \in Windows :
            {[product_id |-> r.product_id, category_id |-> r.category_id,
              score |-> r.score, event_count |-> r.event_count] :
                r \in {t \in trending_scores : t.time_window = w}}
            = resp.computed[w]

\* C19: two runs on the same window with the same qualifying events yield
\* identical rows (products, normalised scores, event counts), whenever each
\* of them executes: the rows a run computed are the rows a run computes
\* after time has passed without changing the window's qualifying events.
C19_RerunIdentical ==
    [][\A w \in Windows :
          (/\ TrendingRan
           /\ now' # now
           /\ Qualifying(w)' = Qualifying(w)
           /\ Qualifying(w) # {})
          => ComputeTrendingScores(w)' = resp.computed[w]]_vars

(***************************************************************************)
(* Properties of recommend (SpecRec).                                      *)
(***************************************************************************)
RecommendAnswered == resp.op = "recommend"

Personalized ==
    RecommendAnswered /\ ~resp.from_cache /\ resp.strategy = "personalized"

\* The positions in `events` of a user's interactions, and of the RecentLimit
\* latest of them.
InteractionsOf(user_id) ==
    {i \in 1..Len(events) : events[i].user_id = user_id}

RecentInteractions(user_id) ==
    {i \in InteractionsOf(user_id) :
        Cardinality({j \in InteractionsOf(user_id) : j > i}) < RecentLimit}

\* C1: a recommend call for a user without any recorded interaction is tagged
\* cold_start_category when a category filter was supplied and trending when
\* none was.
C1_ColdStartTag ==
    (RecommendAnswered /\ InteractionsOf(resp.user_id) = {}) =>
        resp.strategy = IF resp.category_id # NoCategory
                        THEN "cold_start_category" ELSE "trending"

\* C2: a result tagged personalized has at least ceil(k/2) items; a shorter
\* candidate list is dropped for the cold start strategies.
C2_PersonalizedHasHalfOfK ==
    (RecommendAnswered /\ resp.strategy = "personalized") =>
        Len(resp.items) * 2 >= resp.k

\* C3: a personalized result holds no product the user has interacted with,
\* however long ago in their history.
C3_NoInteractedProduct ==
    Personalized =>
        \A i \in 1..Len(resp.items) :
            resp.items[i].id \notin
                {events[j].product_id : j \in InteractionsOf(resp.user_id)}

\* similarity_score(source -> c) as the similar list of source shows it: the
\* stored score of the edge to an active product c, 0 without one.
ListedScore(source, c) ==
    LET edges == {r \in item_similarity :
                    r.product_id = source /\ r.similar_product_id = c}
    IN  IF edges = {} \/ ~products[c].is_active THEN 0
        ELSE (CHOOSE r \in edges : TRUE).similarity_score

StatedWeight(event_type) ==
    CASE event_type = "view" -> 1
      [] event_type = "add_to_cart" -> 3
      [] event_type = "purchase" -> 5

\* C4: the score of a personalized candidate c is the sum, over the user's
\* RecentLimit latest events whose product lists c as similar, of the
\* similarity score of that edge times the weight of the event's type.
C4_ScoreIsWeightedSum ==
    Personalized =>
        \A i \in 1..Len(resp.items) :
            resp.items[i].score =
                SumOver([j \in RecentInteractions(resp.user_id) |->
                            ListedScore(events[j].product_id, resp.items[i].id)
                                * StatedWeight(events[j].event_type)],
                        RecentInteractions(resp.user_id))

\* A personalized candidate that two recent events of different types
\* contributed to.
C4_Witness ==
    /\ Personalized
    /\ \E i \in 1..Len(resp.items) :
         \E j1, j2 \in RecentInteractions(resp.user_id) :
            /\ events[j1].event_type # events[j2].event_type
            /\ ListedScore(events[j1].product_id, resp.items[i].id) > 0
            /\ ListedScore(events[j2].product_id, resp.items[i].id) > 0

(***************************************************************************)
(* Properties of the similarity pipeline (SpecPipe).                       *)
(***************************************************************************)
SimilarityRan == resp.op = "similarity_run"

\* The stored entries going out of a product.
Outgoing(product_id) == {r \in item_similarity : r.product_id = product_id}

\* C11: after any sequence of similarity runs every product has at most
\* top_k_similar (50) stored outgoing entries, every stored entry has a
\* co_occurrence_count of at least 2, and no stored entry pairs a product
\* with itself.
C11_StoredEdgesBounded ==
    /\ \A product_id \in {r.product_id : r \in item_similarity} :
          Cardinality(Outgoing(product_id)) <= top_k_similar
    /\ \A r \in item_similarity :
          /\ r.co_occurrence_count >= 2
          /\ r.product_id # r.similar_product_id

\* A run over more than top_k_similar + 1 products that all co-occur has
\* left a product with exactly top_k_similar entries.
C11_Witness ==
    /\ SimilarityRan
    /\ Cardinality({resp.interactions[i].product_id :
                        i \in 1..Len(resp.interactions)}) > top_k_similar + 1
    /\ \E r \in item_similarity :
          Cardinality(Outgoing(r.product_id)) = top_k_similar

\* C12: after any completed similarity run the table holds exactly the edges
\* that run computed; a run that finds no interactions, fewer than two
\* products or no pair meeting the co-occurrence minimum leaves it empty.
C12_TableIsComputedEdges ==
    SimilarityRan => item_similarity = SeqToSet(resp.similarity_pairs)

\* The qualifying events of a (user, product) pair of a given type.
PairEvents(user_id, product_id, event_type) ==
    {i \in 1..Len(events) :
        /\ events[i].user_id = user_id
        /\ events[i].product_id = product_id
        /\ events[i].event_type = event_type
        /\ now - events[i].day <= lookback_days
        /\ products[product_id].is_active}

\* C20: the interactions a run aggregates hold one row for every (user,
\* product) pair with a qualifying event, and its weight is the number of the
\* pair's views plus 3 times its add_to_carts plus 5 times its purchases,
\* whatever the age of the events within the window.
C20_WeightIsSumOfEventWeights ==
    SimilarityRan =>
        /\ \A i \in 1..Len(resp.interactions) :
              LET row == resp.interactions[i]
              IN  row.weight =
                      Cardinality(PairEvents(row.user_id, row.product_id, "view"))
                    + 3 * Cardinality(PairEvents(row.user_id, row.product_id,
                                                 "add_to_cart"))
                    + 5 * Cardinality(PairEvents(row.user_id, row.product_id,
                                                 "purchase"))
        /\ \A i, j \in 1..Len(resp.interactions) :
              (/\ resp.interactions[i].user_id = resp.interactions[j].user_id
               /\ resp.interactions[i].product_id
                    = resp.interactions[j].product_id) => i = j
        /\ \A e \in 1..Len(events) :
              (/\ now - events[e].day <= lookback_days
               /\ products[events[e].product_id].is_active)
              => \E i \in 1..Len(resp.interactions) :
                    /\ resp.interactions[i].user_id = events[e].user_id
                    /\ resp.interactions[i].product_id = events[e].product_id

\* A run over two views of product 1 and a purchase of product 2 by one
\* user, the views on different days: the weights are 2 and 5.
C20_Witness ==
    /\ SimilarityRan
    /\ Len(events) = 3
    /\ \E i, j \in 1..Len(events) : events[i].day # events[j].day
    /\ resp.interactions =
          <<[user_id |-> <<"a">>, product_id |-> 1, weight |-> 2],
            [user_id |-> <<"a">>, product_id |-> 2, weight |-> 5]>>

(***************************************************************************)
(* Properties of cache invalidation (SpecInval).                           *)
(***************************************************************************)
HasPrefix(key, prefix) ==
    Len(key) >= Len(prefix) /\ SubSeq(key, 1, Len(prefix)) = prefix

IsRecKey(key) == HasPrefix(key, <<"r", "e", "c", ":">>)
IsSimKey(key) == HasPrefix(key, <<"s", "i", "m", ":">>)

\* A step that recorded an event.
EventRecorded == Len(events') = Len(events) + 1

\* C17: recording an interaction for u deletes all and only u's
\* recommendation entries: every entry of another user and every similarity
\* entry is unchanged, also for ids that continue one another behind a ':'
\* or hold pattern characters.
C17_OnlyOwnEntriesDeleted ==
    [][EventRecorded =>
         LET user_id == events'[Len(events')].user_id
         IN  \A key \in DOMAIN cache :
                IF key = RecKey(user_id, InvalK, NoCategory)
                THEN key \notin DOMAIN cache'
                ELSE key \in DOMAIN cache' /\ cache'[key] = cache[key]]_vars

\* C18: after every completed trending run and every completed similarity
\* run, also one that found no input, the cache holds no recommendation and
\* no similarity entry that was stored before.
C18_RunsClearRecAndSim ==
    [][(resp'.op = "trending_run" \/ resp'.op = "similarity_run") =>
         \A key \in DOMAIN cache :
            (IsRecKey(key) \/ IsSimKey(key)) => key \notin DOMAIN cache']_vars

\* C18 as the pipelines do it: a trending run with a Redis client leaves no
\* recommendation entry and every similarity entry; a similarity run with a
\* Redis client that found interactions leaves no recommendation and no
\* similarity entry; a similarity run that found no interaction, and a run
\* without a Redis client, leave the cache as it was.
C18_RunsClearTheirNamespaces ==
    [][/\ (resp'.op = "trending_run" /\ RunTrending(TRUE)) =>
            /\ \A key \in DOMAIN cache' : ~IsRecKey(key)
            /\ \A key \in DOMAIN cache :
                  IsSimKey(key) =>
                      key \in DOMAIN cache' /\ cache'[key] = cache[key]
       /\ (/\ resp'.op = "similarity_run"
           /\ resp'.interactions # <<>>
           /\ RunSimilarity(TRUE)) =>
            \A key \in DOMAIN cache' : ~IsRecKey(key) /\ ~IsSimKey(key)
       /\ (resp'.op = "similarity_run" /\ resp'.interactions = <<>>) =>
            cache' = cache
       /\ (resp'.op = "trending_run" /\ RunTrending(FALSE)) => cache' = cache
       /\ (resp'.op = "similarity_run" /\ RunSimilarity(FALSE)) =>
            cache' = cache]_vars

\* A trending run has completed with the cache holding the similarity entry
\* and none of the recommendation entries it held from the start.
C18_Witness ==
    /\ resp.op = "trending_run"
    /\ DOMAIN cache = {SimKey(1, InvalK)}

(***************************************************************************)
(* Properties of the cache under failures (SpecCache).                     *)
(***************************************************************************)
\* C15: under every cache failure (Redis unreachable, a failing get or set,
\* a stored value that is corrupt or of another shape) a recommend or
\* similar request does not fail, and what it returns past the cache is a
\* result computed from the tables.
C15_CacheFailureIsMiss ==
    /\ resp.op = "recommend" =>
          /\ resp.status = 200
          /\ ~resp.from_cache =>
                [recommendations |-> resp.items, strategy |-> resp.strategy]
                    \in GetRecommendations(resp.user_id, resp.k,
                                           resp.category_id)
    /\ (resp.op = "similar" /\ resp.status # 404) =>
          /\ resp.status = 200
          /\ ~resp.from_cache =>
                resp.items \in {GetSimilarProducts(resp.product_id, fetched,
                                                   resp.k) :
                                  fetched \in SimilarFetches(resp.product_id,
                                                             resp.k)}

(***************************************************************************)
(* Properties of recommend against events (SpecRace).                      *)
(***************************************************************************)
\* C16: once create_event for u has returned, a recommend request for u that
\* starts afterwards never answers with a result cached before the event:
\* what it takes from the cache is a result of the user's history as it is,
\* also when other requests for u were under way while the event was
\* recorded.
C16_NoStaleCachedResult ==
    (resp.op = "recommend" /\ resp.status = 200 /\ resp.from_cache) =>
        [recommendations |-> resp.items, strategy |-> resp.strategy]
            \in GetRecommendations(resp.user_id, resp.k, resp.category_id)

(***************************************************************************)
(* Properties of the pipelines' saves (SpecTx).                            *)
(***************************************************************************)
\* C13: while a run replaces a score table (the trending rows of a window,
\* or the similarity table), what a concurrent read finds in it is the
\* complete prior contents or the complete new contents: no step changes the
\* table a read sees other than from the one to the other.
C13_ReadsSeeWholeTables ==
    [][/\ \/ item_similarity' = item_similarity
          \/ tx.job = "similarity" /\ item_similarity' = tx.rows
       /\ \A w \in Windows :
            \/ WindowRows(trending_scores', w) = WindowRows(trending_scores, w)
            \/ /\ tx.job = "trending"
               /\ WindowRows(trending_scores', w) = tx.rows]_vars

\* A similar request was answered from the table while the similarity
\* table's replacement had inserted some of its rows, not all.
C13_Witness ==
    /\ tx.job = "similarity"
    /\ tx.working # {} /\ tx.working # tx.rows
    /\ item_similarity # {} /\ item_similarity # tx.rows
    /\ resp.op = "similar" /\ resp.status = 200
    /\ ~resp.from_cache /\ resp.items # <<>>

MaxBlock == 3           \* block sizes 1..MaxBlock are compared

\* C21: for every interaction set and every block size, the block-wise
\* computation yields the edges (source, target, score, co-occurrence count,
\* at most top_k_similar per source) of the computation over all products at
\* once; a run's pairs are these.
C21_BlocksGiveAllPairs ==
    SimilarityRan =>
        LET product_pairs == ProductPairs(resp.interactions)
            all_pairs == Concat(product_pairs)
        IN  Len(product_pairs) >= 2 =>
                /\ resp.similarity_pairs = all_pairs
                /\ \A size \in 1..MaxBlock :
                      Batched(product_pairs, size) = all_pairs

\* A run over more products than MaxBlock blocks of size MaxBlock hold, their
\* number no multiple of one of the block sizes, with more than top_k_similar
\* pairs.
C21_Witness ==
    /\ SimilarityRan
    /\ Len(resp.similarity_pairs) > top_k_similar
    /\ LET n_products == Cardinality({resp.interactions[i].product_id :
                                        i \in 1..Len(resp.interactions)})
       IN  /\ n_products > MaxBlock * MaxBlock
           /\ \E size \in 1..MaxBlock : n_products % size # 0

(***************************************************************************)
(* Order of the returned lists (SpecRec).                                  *)
(***************************************************************************)
\* C22: two products of equal trending score are listed in ascending order
\* of their product ids by the trending and the cold start by category
\* results.
C22_TrendingTiesByProductId ==
    (/\ RecommendAnswered
     /\ resp.status = 200
     /\ resp.strategy \in {"trending", "cold_start_category"}) =>
        \A i, j \in 1..Len(resp.items) :
            (i < j /\ resp.items[i].score = resp.items[j].score) =>
                resp.items[i].id < resp.items[j].id

\* The position of a product in a list of records with an `id` field.
PositionOf(list, product_id) ==
    CHOOSE n \in 1..Len(list) : list[n].id = product_id

\* The rows a candidates query returned, as (id, ranking score) records.
FetchedRanking(product_id, fetched) ==
    [n \in 1..Len(fetched) |->
        [id |-> fetched[n].row.similar_product_id,
         key |-> RankingScore(products[product_id].category_id,
                              fetched[n].row)]]

\* Items of equal score stand in `list` in the order they have in `found`.
TiesAsFound(list, found) ==
    \A i, j \in 1..Len(list) :
        (i < j /\ list[i].key = list[j].key) =>
            PositionOf(found, list[i].id) < PositionOf(found, list[j].id)

\* The (id, score) records of a returned list.
ItemKeys(items, ranking(_)) ==
    [n \in 1..Len(items) |-> [id |-> items[n].id, key |-> ranking(items[n])]]

\* C23: a computed similar answer is explained by a result of the candidates
\* query in which the items of equal ranking score stand in the order they
\* were fetched; a computed personalized answer is explained by answers of
\* the similar queries under which the items of equal score stand in the
\* order their scores were first accumulated.
C23_TiesInDiscoveryOrder ==
    /\ (SimilarAnswered /\ ~resp.from_cache) =>
          \E fetched \in SimilarFetches(resp.product_id, resp.k) :
              /\ resp.items =
                    GetSimilarProducts(resp.product_id, fetched, resp.k)
              /\ TiesAsFound(ItemKeys(resp.items,
                                      LAMBDA item :
                                        ItemRanking(resp.product_id, item)),
                             FetchedRanking(resp.product_id, fetched))
    /\ Personalized =>
          LET recent_events == RecentEvents(resp.user_id)
              interacted == {recent_events[i].product_id :
                                i \in 1..Len(recent_events)}
          IN  \E similar_of \in SimilarChoices(interacted) :
                /\ resp.items =
                      GetCollaborativeRecommendations(resp.user_id, resp.k,
                                                      resp.category_id,
                                                      similar_of)
                /\ TiesAsFound(ItemKeys(resp.items, LAMBDA item : item.score),
                               CandidateScores(<<>>, recent_events, 1,
                                               Len(recent_events), similar_of,
                                               interacted, resp.category_id))

\* A personalized answer lists product 5 before product 4, both at 0.60:
\* product 5 was found first, through the later view of product 3.  The
\* cache holds a similar list in which the item of the lower stored score
\* stands behind one of another category it ties with in ranking.
C23_Witness ==
    /\ Personalized
    /\ Len(resp.items) >= 2
    /\ resp.items[1].id = 5 /\ resp.items[2].id = 4
    /\ resp.items[1].score = resp.items[2].score
    /\ \E key \in DOMAIN cache :
          /\ cache[key].kind = "sim"
          /\ \E i, j \in 1..Len(cache[key].items) :
                /\ i < j
                /\ cache[key].items[i].score > cache[key].items[j].score
                /\ ItemRanking(1, cache[key].items[i])
                     = ItemRanking(1, cache[key].items[j])

\* C24: no list a recommend or similar request returns holds a product that
\* is inactive in the catalog when the list is returned, a list served from
\* the cache included.
C24_NoInactiveProductReturned ==
    (resp.op \in {"recommend", "similar"} /\ resp.status = 200) =>
        \A i \in 1..Len(resp.items) : products[resp.items[i].id].is_active

(***************************************************************************)
(* The strategy tag (SpecRec).                                             *)
(***************************************************************************)
\* C25: a recommend result carries one of the tags personalized,
\* cold_start_category and trending; personalized only for a user with a
\* recorded interaction, trending only when no category filter was supplied,
\* and cold_start_category whenever a filter was supplied and the result is
\* not personalized.
C25_TagMatchesRequest ==
    (RecommendAnswered /\ resp.status = 200) =>
        /\ resp.strategy \in {"personalized", "cold_start_category", "trending"}
        /\ resp.strategy = "personalized" => InteractionsOf(resp.user_id) # {}
        /\ resp.strategy = "trending" => resp.category_id = NoCategory
        /\ (resp.category_id # NoCategory /\ resp.strategy # "personalized")
              => resp.strategy = "cold_start_category"

(***************************************************************************)
(* Properties of the event submission (SpecEvent).                         *)
(***************************************************************************)
\* C26: when the recommendation keys of an event's user are deleted, the
\* event is already committed: every reader of the events table finds it.
C26_CommittedBeforeInvalidation ==
    [][\A request \in pending :
          (request \notin pending' /\ resp'.op = "create_event"
             /\ resp'.status = 201 /\ resp'.event = EventOf(request)) =>
                EventOf(request) \in SeqToSet(events)]_vars

\* A submission has been answered after deleting a cached list of its user,
\* and its event is in the table.
C26_Witness ==
    /\ resp.op = "create_event"
    /\ resp.status = 201
    /\ resp.deleted > 0
    /\ resp.event \in SeqToSet(events)

\* C30: of two submissions for one user id unknown before, processed side by
\* side, both are answered 201, the user has one row and both events are
\* recorded for it: no submission for a product of the catalog fails.
C30_ConcurrentFirstEventsSucceed ==
    (resp.op = "create_event" /\ ProductExists(resp.event.product_id)) =>
        /\ resp.status = 201
        /\ resp.user_id \in users
        /\ resp.event \in SeqToSet(events)

(***************************************************************************)
(* Properties of a batch run beside requests under way (SpecBatch).        *)
(***************************************************************************)
\* C27: once a batch run has committed its table and completed its cache
\* invalidation, the cache holds no recommendation derived from the table of
\* before the run, not even of a request that read that table before the
\* commit.
C27_NoOldResultAfterInvalidation ==
    (tx = NoTx /\ trending_scores # TxTrending) =>
        \A key \in DOMAIN cache :
            cache[key].kind = "rec" =>
                \E result \in GetRecommendations(RecIdle, BatchK, NoCategory) :
                    /\ cache[key].recommendations = result.recommendations
                    /\ cache[key].strategy = result.strategy

(***************************************************************************)
(* Properties of the cache keys (SpecKey).                                 *)
(***************************************************************************)
\* C28: two recommendation requests that differ in user_id, k or category
\* filter (no filter against any category id included), and two similarity
\* requests that differ in product_id or k, have different cache keys.
C28_KeysInjective ==
    resp.op = "keys" =>
        (resp.first_key = resp.second_key => resp.first = resp.second)

\* C29: a list returned by recommend or similar for k has at most k items,
\* holds no product twice, and its items carry the ranks 1, 2, ... in order.
C29_ListWellFormed ==
    (resp.op \in {"recommend", "similar"} /\ resp.status = 200) =>
        /\ Len(resp.items) <= resp.k
        /\ \A i, j \in 1..Len(resp.items) :
              resp.items[i].id = resp.items[j].id => i = j
        /\ \A i \in 1..Len(resp.items) : resp.items[i].rank = i

\* An answer of k items, cut from more candidates than k.
C29_Witness ==
    /\ resp.op \in {"recommend", "similar"}
    /\ resp.status = 200
    /\ Len(resp.items) = resp.k
    /\ resp.k >= 2
    /\ \/ /\ resp.op = "similar"
          /\ Cardinality(SimilarCandidates(resp.product_id)) > resp.k
       \/ /\ resp.op = "recommend"
          /\ Cardinality(TrendingRows("7d")) > resp.k

====
